---- MODULE Spec2Model ----
(***************************************************************************)
(* Model of the torch-mlir AdjustCallingConventions pass                   *)
(* (lib/Dialect/Torch/Transforms/AdjustCallingConventions.cpp).            *)
(*                                                                         *)
(* A module holds two functions, "f" and "g"; "g" may hold one direct call *)
(* to "f".  The pass first collects the torch.type_bound annotations of    *)
(* every function into typeBoundMap, then runs adjustCallingConventions on *)
(* every function in module order.  One partial conversion of one function *)
(* is one step: it either commits the rewrites of the function, its calls  *)
(* and its return, or fails and leaves the function as it was.  After a    *)
(* successful run the pass may be run a second time on its own output.     *)
(***************************************************************************)
EXTENDS Integers, Sequences, FiniteSets, TLC

\* Bounds of the explored programs.
MaxArgs == 2
MaxResults == 2

(***************************************************************************)
(* Types.  A type is a record; a tuple type lists its contained types.     *)
(***************************************************************************)
Ty(k, i) == [kind |-> k, info |-> i, elems |-> <<>>]

IntType == Ty("int", "")

NoneType == Ty("none", "")

NonValueTensorType == Ty("tensor", "")

ValueTensorType == Ty("vtensor", "")

RefinedValueTensorType == Ty("vtensor", "[2],f32")

TupleType(es) == [kind |-> "tuple", info |-> "", elems |-> es]

\* The null Type() / null attribute: no torch.type_bound on the argument.
NoTypeBound == Ty("absent", "")

isaNoneType(t) == t.kind = "none"

isaTupleType(t) == t.kind = "tuple"

isaNonValueTensorType(t) == t.kind = "tensor"

isaValueTensorType(t) == t.kind = "vtensor"

Unimplemented == "unimplemented: preserving aliasing for non-value-semantic type bounds"

FailedToLegalize == "failed to legalize operation 'func.func'"

RECURSIVE Concat(_)
\* llvm::append_range / push_back of per-element contributions, in order.
Concat(ss) == IF Len(ss) = 0 THEN <<>> ELSE Head(ss) \o Concat(Tail(ss))

(***************************************************************************)
(* The type converter of adjustCallingConventions.                         *)
(***************************************************************************)
convertType(t) ==
  IF isaNoneType(t) THEN <<>>
  ELSE IF isaTupleType(t) THEN t.elems
  ELSE <<t>>

convertTypes(ts) == Concat([i \in 1..Len(ts) |-> convertType(ts[i])])

(***************************************************************************)
(* Legality of a func.func.                                                *)
(***************************************************************************)
isLegalFunc(fn) ==
  /\ \A i \in 1..Len(fn.args) :
        /\ fn.args[i].bound = NoTypeBound
        /\ ~isaNoneType(fn.args[i].type)
  /\ \A i \in 1..Len(fn.results) : ~isaNoneType(fn.results[i])

(***************************************************************************)
(* AdjustCallingConventionForFunc.                                         *)
(***************************************************************************)
funcMatchFails(fn) ==
  \E i \in 1..Len(fn.args) :
     /\ isaNonValueTensorType(fn.args[i].type)
     /\ ~isaValueTensorType(fn.args[i].bound)

convertedInputs(a) ==
  IF isaNonValueTensorType(a.type)
    THEN <<[type |-> a.bound, bound |-> NoTypeBound]>>
  ELSE IF isaNoneType(a.type) THEN <<>>
  ELSE <<[type |-> a.type, bound |-> NoTypeBound]>>

newResultTypes(results) ==
  Concat([i \in 1..Len(results) |->
            IF isaNoneType(results[i]) THEN <<>>
            ELSE IF isaTupleType(results[i]) THEN results[i].elems
            ELSE <<results[i]>>])

matchAndRewriteFunc(fn) ==
  [fn EXCEPT !.args = Concat([i \in 1..Len(fn.args) |-> convertedInputs(fn.args[i])]),
             !.results = newResultTypes(fn.results)]

(***************************************************************************)
(* AdjustCallingConventionForCall.                                         *)
(***************************************************************************)
\* typeBoundMap.find({callee, index}): the entries stored under the key.
find(table, callee, index) ==
  {e \in table : e.name = callee /\ e.index = index}

copyTensorToType(type, operand) ==
  [type |-> type, origin |-> operand.origin, via |-> "copyTensorToType"]

callMatchFails(call, table) ==
  \E i \in 1..Len(call.operands) :
     /\ ~isaNoneType(call.operands[i].type)
     /\ \E e \in find(table, call.callee, i - 1) : ~isaValueTensorType(e.bound)

newOperands_lookupAfterDrop(call, table) ==
  LET kept == SelectSeq([i \in 1..Len(call.operands) |-> i],
                        LAMBDA i : ~isaNoneType(call.operands[i].type))
  IN [k \in 1..Len(kept) |->
        LET hit == find(table, call.callee, k - 1)
        IN IF hit # {}
             THEN copyTensorToType((CHOOSE e \in hit : TRUE).bound,
                                   call.operands[kept[k]])
             ELSE call.operands[kept[k]]]

newOperands(call, table) ==
  Concat([i \in 1..Len(call.operands) |->
            IF isaNoneType(call.operands[i].type) THEN <<>>
            ELSE LET hit == find(table, call.callee, i - 1)
                 IN IF hit # {}
                      THEN <<copyTensorToType((CHOOSE e \in hit : TRUE).bound,
                                              call.operands[i])>>
                      ELSE <<call.operands[i]>>])

ConstantNoneOp(type) == [kind |-> "ConstantNoneOp", type |-> type, from |-> <<>>]

PrimTupleConstructOp(type, from) ==
  [kind |-> "PrimTupleConstructOp", type |-> type, from |-> from]

getResult(type, i) == [kind |-> "result", type |-> type, from |-> <<i>>]

RECURSIVE newResults_noNoneConstant(_, _, _)
newResults_noNoneConstant(types, numNewResults, newOpResultIdx) ==
  IF Len(types) = 0 THEN <<>>
  ELSE IF isaNoneType(Head(types))
    THEN newResults_noNoneConstant(Tail(types), numNewResults, newOpResultIdx)
  ELSE IF isaTupleType(Head(types))
    THEN <<PrimTupleConstructOp(Head(types), [j \in 1..numNewResults |-> j - 1])>>
         \o newResults_noNoneConstant(Tail(types), numNewResults, newOpResultIdx)
  ELSE <<getResult(Head(types), newOpResultIdx)>>
       \o newResults_noNoneConstant(Tail(types), numNewResults, newOpResultIdx + 1)

RECURSIVE newResults(_, _, _)
\* The loop over call.getResultTypes(); indices of new-call results are
\* 0-based as in the source.
newResults(types, numNewResults, newOpResultIdx) ==
  IF Len(types) = 0 THEN <<>>
  ELSE IF isaNoneType(Head(types))
    THEN <<ConstantNoneOp(Head(types))>>
         \o newResults(Tail(types), numNewResults, newOpResultIdx)
  ELSE IF isaTupleType(Head(types))
    THEN <<PrimTupleConstructOp(Head(types), [j \in 1..numNewResults |-> j - 1])>>
         \o newResults(Tail(types), numNewResults, newOpResultIdx)
  ELSE <<getResult(Head(types), newOpResultIdx)>>
       \o newResults(Tail(types), numNewResults, newOpResultIdx + 1)

matchAndRewriteCall(call, table) ==
  LET convertedResults == convertTypes(call.resultTypes)
  IN [callee |-> call.callee,
      operands |-> newOperands(call, table),
      resultTypes |-> convertedResults,
      replaced |-> newResults(call.resultTypes, Len(convertedResults), 0)]

(***************************************************************************)
(* AdjustCallingConventionForReturn.                                       *)
(***************************************************************************)
\* adaptor.getOperands() of the OneToNOpAdaptor: the values the engine
\* supplies for one original operand.  A tuple-typed operand arrives as the
\* results of a builtin.unrealized_conversion_cast of the tuple value.
OneToNOperands(operand) ==
  LET types == convertType(operand.type)
  IN IF isaTupleType(operand.type)
       THEN [vals |-> [k \in 1..Len(types) |->
                          [type |-> types[k], via |-> "UnrealizedConversionCastOp",
                           origin |-> operand.origin, index |-> k - 1]],
             castOperandType |-> operand.type]
       ELSE [vals |-> [k \in 1..Len(types) |-> operand],
             castOperandType |-> NoTypeBound]

PrimTupleIndexOp(type, operand, i) ==
  [type |-> type, via |-> "PrimTupleIndexOp", origin |-> operand.origin, index |-> i]

returnContribution(group) ==
  IF Len(group.vals) = 1
    THEN IF isaNoneType(group.vals[1].type) THEN <<>> ELSE <<group.vals[1]>>
  ELSE IF Len(group.vals) > 1
    THEN IF /\ group.vals[1].via = "UnrealizedConversionCastOp"
            /\ isaTupleType(group.castOperandType)
           THEN [k \in 1..Len(group.castOperandType.elems) |->
                   PrimTupleIndexOp(group.castOperandType.elems[k], group.vals[1], k - 1)]
           ELSE group.vals
  ELSE <<>>

matchAndRewriteReturn(ret) ==
  Concat([i \in 1..Len(ret) |-> returnContribution(OneToNOperands(ret[i]))])

(***************************************************************************)
(* adjustCallingConventions: one partial conversion of one function.       *)
(***************************************************************************)
adjustCallingConventions(fn, table) ==
  LET fn1 == IF isLegalFunc(fn) THEN fn ELSE matchAndRewriteFunc(fn)
  IN IF ~isLegalFunc(fn) /\ funcMatchFails(fn)
       THEN [ok |-> FALSE, fn |-> fn, diag |-> Unimplemented]
     ELSE IF ~isLegalFunc(fn1)
       THEN [ok |-> FALSE, fn |-> fn, diag |-> FailedToLegalize]
     ELSE IF \E c \in 1..Len(fn.calls) : callMatchFails(fn.calls[c], table)
       THEN [ok |-> FALSE, fn |-> fn, diag |-> Unimplemented]
     ELSE [ok |-> TRUE,
           fn |-> [fn1 EXCEPT
                     !.calls = [c \in 1..Len(fn.calls) |->
                                  matchAndRewriteCall(fn.calls[c], table)],
                     !.ret = matchAndRewriteReturn(fn.ret)],
           diag |-> ""]

(***************************************************************************)
(* The type-bound collector of runOnOperation.                             *)
(***************************************************************************)
collectTypeBounds_onlyThisFunc(name, fn, table) ==
  {[name |-> name, index |-> i - 1, bound |-> fn.args[i].bound] :
      i \in {j \in 1..Len(fn.args) : fn.args[j].bound # NoTypeBound}}

collectTypeBounds(name, fn, table) ==
  {e \in table : ~(e.name = name /\ e.index < Len(fn.args)
                   /\ fn.args[e.index + 1].bound # NoTypeBound)}
  \cup {[name |-> name, index |-> i - 1, bound |-> fn.args[i].bound] :
          i \in {j \in 1..Len(fn.args) : fn.args[j].bound # NoTypeBound}}

(***************************************************************************)
(* Programs.                                                               *)
(***************************************************************************)
FuncNames == {"f", "g"}

SeqsUpTo(S, n) == UNION {[1..k -> S] : k \in 0..n}

ArgDecls ==
  {[type |-> IntType, bound |-> NoTypeBound],
   [type |-> NoneType, bound |-> NoTypeBound],
   [type |-> NoneType, bound |-> RefinedValueTensorType],
   [type |-> NonValueTensorType, bound |-> NoTypeBound],
   [type |-> NonValueTensorType, bound |-> RefinedValueTensorType],
   [type |-> NonValueTensorType, bound |-> NonValueTensorType],
   [type |-> ValueTensorType, bound |-> RefinedValueTensorType],
   [type |-> ValueTensorType, bound |-> NonValueTensorType]}

ResultTypes ==
  {IntType, NoneType, ValueTensorType,
   TupleType(<<ValueTensorType, ValueTensorType>>),
   TupleType(<<NoneType, ValueTensorType>>)}

\* A return whose operands have the declared result types.
ReturnOf(results) ==
  [i \in 1..Len(results) |->
     [type |-> results[i], via |-> "operand", origin |-> i - 1, index |-> 0]]

\* A direct call whose operands and results have the callee's declared types.
CallTo(callee, fn) ==
  [callee |-> callee,
   operands |-> [i \in 1..Len(fn.args) |->
                   [type |-> fn.args[i].type, origin |-> i - 1, via |-> "operand"]],
   resultTypes |-> fn.results,
   replaced |-> [i \in 1..Len(fn.results) |-> getResult(fn.results[i], i - 1)]]

Func(args, results, calls) ==
  [args |-> args, results |-> results, ret |-> ReturnOf(results), calls |-> calls]

VARIABLES funcs, order, typeBoundMap, pc, idx, run, before, adjusted, diag

vars == <<funcs, order, typeBoundMap, pc, idx, run, before, adjusted, diag>>

Init ==
  /\ \E args \in SeqsUpTo(ArgDecls, MaxArgs), results \in SeqsUpTo(ResultTypes, MaxResults),
        called \in BOOLEAN :
       LET f == Func(args, results, <<>>)
           g == Func(<<[type |-> NonValueTensorType, bound |-> RefinedValueTensorType]>>,
                     <<>>,
                     IF called THEN <<CallTo("f", f)>> ELSE <<>>)
       IN funcs = [n \in FuncNames |-> IF n = "f" THEN f ELSE g]
  /\ order \in {<<"f", "g">>, <<"g", "f">>}
  /\ typeBoundMap = {}
  /\ pc = "collect"
  /\ idx = 1
  /\ run = 1
  /\ before = funcs
  /\ adjusted = {}
  /\ diag = ""

\* First loop of runOnOperation, one function per step.
Collect ==
  /\ pc = "collect"
  /\ typeBoundMap' = collectTypeBounds(order[idx], funcs[order[idx]], typeBoundMap)
  /\ IF idx < Len(order)
       THEN idx' = idx + 1 /\ pc' = pc
       ELSE idx' = 1 /\ pc' = "rewrite"
  /\ UNCHANGED <<funcs, order, run, before, adjusted, diag>>

\* Second loop of runOnOperation: the conversion of one function succeeds.
AdjustOk ==
  /\ pc = "rewrite"
  /\ LET res == adjustCallingConventions(funcs[order[idx]], typeBoundMap)
     IN /\ res.ok
        /\ funcs' = [funcs EXCEPT ![order[idx]] = res.fn]
  /\ adjusted' = adjusted \cup {order[idx]}
  /\ IF idx < Len(order)
       THEN idx' = idx + 1 /\ pc' = pc
       ELSE idx' = idx /\ pc' = "done"
  /\ UNCHANGED <<order, typeBoundMap, run, before, diag>>

\* Second loop of runOnOperation: the conversion fails, signalPassFailure.
AdjustFail ==
  /\ pc = "rewrite"
  /\ LET res == adjustCallingConventions(funcs[order[idx]], typeBoundMap)
     IN /\ ~res.ok
        /\ diag' = res.diag
  /\ pc' = "failed"
  /\ UNCHANGED <<funcs, order, typeBoundMap, idx, run, before, adjusted>>

\* The pass is run again on the output of a successful first run.
Rerun ==
  /\ pc = "done"
  /\ run = 1
  /\ run' = 2
  /\ before' = funcs
  /\ typeBoundMap' = {}
  /\ adjusted' = {}
  /\ pc' = "collect"
  /\ idx' = 1
  /\ UNCHANGED <<funcs, order, diag>>

Next == Collect \/ AdjustOk \/ AdjustFail \/ Rerun

Spec == Init /\ [][Next]_vars

(***************************************************************************)
(* Properties.  `before` is the module as it was when the current run of   *)
(* the pass started; `adjusted` holds the functions whose conversion has   *)
(* been committed in the current run.                                      *)
(***************************************************************************)
TypesOf(vals) == [i \in 1..Len(vals) |-> vals[i].type]

RECURSIVE Width(_)
\* Number of new-call results that the original result types `types` stand for.
Width(types) ==
  IF Len(types) = 0 THEN 0
  ELSE (IF isaNoneType(Head(types)) THEN 0
        ELSE IF isaTupleType(Head(types)) THEN Len(Head(types).elems)
        ELSE 1) + Width(Tail(types))

RewrittenCalls == {<<n, c>> \in FuncNames \X (1..1) : n \in adjusted /\ c <= Len(funcs[n].calls)}

\* C1: walking the original result types with a cursor into the new call's
\* results, a tuple-typed result is rebuilt from exactly the next N new-call
\* results at the cursor (N = number of contained types) and a plain result
\* is the single new-call result at the cursor.
C1_TupleConsumesNextN ==
  \A nc \in RewrittenCalls :
    LET orig == before[nc[1]].calls[nc[2]].resultTypes
        new == funcs[nc[1]].calls[nc[2]]
    IN \A p \in 1..Len(orig) :
         LET cursor == Width(SubSeq(orig, 1, p - 1))
         IN /\ isaTupleType(orig[p]) =>
                 new.replaced[p].from = [j \in 1..Len(orig[p].elems) |-> cursor + j - 1]
            /\ (~isaTupleType(orig[p]) /\ ~isaNoneType(orig[p])) =>
                 new.replaced[p].from = <<cursor>>

\* C2: after the pass succeeds no none type appears in any function's
\* argument or result types nor in any call's operand or result-type list.
C2_NoneErasure ==
  pc = "done" =>
    \A n \in FuncNames :
      /\ \A i \in 1..Len(funcs[n].args) : ~isaNoneType(funcs[n].args[i].type)
      /\ \A i \in 1..Len(funcs[n].results) : ~isaNoneType(funcs[n].results[i])
      /\ \A c \in 1..Len(funcs[n].calls) :
           /\ \A i \in 1..Len(funcs[n].calls[c].operands) :
                ~isaNoneType(funcs[n].calls[c].operands[i].type)
           /\ \A i \in 1..Len(funcs[n].calls[c].resultTypes) :
                ~isaNoneType(funcs[n].calls[c].resultTypes[i])

FlattenedResults(results) ==
  Concat([i \in 1..Len(results) |->
            IF isaTupleType(results[i]) THEN results[i].elems
            ELSE IF isaNoneType(results[i]) THEN <<>>
            ELSE <<results[i]>>])

\* C3: after the pass succeeds every function's tuple-typed declared results
\* have been replaced by their contained types in order, whatever else the
\* signature holds.
C3_ResultsFlattened ==
  (pc = "done" /\ run = 1) =>
    \A n \in FuncNames : funcs[n].results = FlattenedResults(before[n].results)

\* C4: the values that replace the results of a rewritten call are as many as
\* the original call had results, one per original position: a none constant
\* for a none-typed result, one tuple value for a tuple-typed result, one
\* new-call result otherwise.
C4_ArityPreserved ==
  \A nc \in RewrittenCalls :
    LET orig == before[nc[1]].calls[nc[2]].resultTypes
        new == funcs[nc[1]].calls[nc[2]]
    IN /\ Len(new.replaced) = Len(orig)
       /\ \A p \in 1..Len(orig) :
            /\ new.replaced[p].type = orig[p]
            /\ new.replaced[p].kind =
                 (IF isaNoneType(orig[p]) THEN "ConstantNoneOp"
                  ELSE IF isaTupleType(orig[p]) THEN "PrimTupleConstructOp"
                  ELSE "result")
            /\ new.replaced[p].kind = "result" =>
                 /\ Len(new.replaced[p].from) = 1
                 /\ new.replaced[p].from[1] < Len(new.resultTypes)

\* C4 witness: a committed call with results (none, tuple of two): two
\* replacement values, a none constant and a tuple, over a new call whose
\* two results are the tuple's components.
C4_Witness ==
  \E nc \in RewrittenCalls :
    LET new == funcs[nc[1]].calls[nc[2]]
    IN /\ run = 1
       /\ Len(new.replaced) = 2
       /\ new.replaced[1].kind = "ConstantNoneOp"
       /\ new.replaced[2].kind = "PrimTupleConstructOp"
       /\ Len(new.resultTypes) = 2

KeptOperands(operands) ==
  SelectSeq([i \in 1..Len(operands) |-> i], LAMBDA i : ~isaNoneType(operands[i].type))

\* C5: the operands of a rewritten call are the non-none original operands in
\* their original order; the one at original position i is a copy of the
\* original operand to the bound when the table holds a value-tensor bound
\* for (callee, i), and the original operand itself when the table holds no
\* entry for (callee, i).
C5_RefinementApplied ==
  \A nc \in RewrittenCalls :
    LET old == before[nc[1]].calls[nc[2]]
        new == funcs[nc[1]].calls[nc[2]]
        kept == KeptOperands(old.operands)
    IN /\ Len(new.operands) = Len(kept)
       /\ \A k \in 1..Len(kept) :
            LET i == kept[k]
                hit == {e \in typeBoundMap : e.name = old.callee /\ e.index = i - 1}
            IN /\ \A e \in hit :
                    isaValueTensorType(e.bound) =>
                      new.operands[k] = [type |-> e.bound,
                                         origin |-> old.operands[i].origin,
                                         via |-> "copyTensorToType"]
               /\ hit = {} => new.operands[k] = old.operands[i]

\* C5 witness: a committed call that dropped a none operand in front of an
\* operand with a value-tensor bound; the one operand left is the copy of the
\* operand at original position 1.
C5_Witness ==
  \E nc \in RewrittenCalls :
    LET old == before[nc[1]].calls[nc[2]]
        new == funcs[nc[1]].calls[nc[2]]
    IN /\ run = 1
       /\ Len(old.operands) = 2
       /\ isaNoneType(old.operands[1].type)
       /\ \E e \in typeBoundMap : e.name = old.callee /\ e.index = 1
       /\ Len(new.operands) = 1
       /\ new.operands[1].via = "copyTensorToType"
       /\ new.operands[1].origin = 1

ShapeOf(fs) ==
  [n \in FuncNames |->
     [args |-> fs[n].args,
      results |-> fs[n].results,
      ret |-> fs[n].ret,
      calls |-> [c \in 1..Len(fs[n].calls) |->
                   [callee |-> fs[n].calls[c].callee,
                    operands |-> fs[n].calls[c].operands,
                    resultTypes |-> fs[n].calls[c].resultTypes]]]]

\* C6: a second run of the pass on the output of a successful run succeeds
\* and leaves signatures, annotations, call operand and result lists and
\* return operand lists as they were after the first run.
C6_Idempotent ==
  (run = 2 /\ pc \in {"done", "failed"}) =>
    (pc = "done" /\ ShapeOf(funcs) = ShapeOf(before))

HasUnsupportedBound(fn) ==
  \E i \in 1..Len(fn.args) :
     fn.args[i].bound # NoTypeBound /\ ~isaValueTensorType(fn.args[i].bound)

\* C7: a function with an argument whose annotation is not a value-semantic
\* tensor type, whatever the argument's declared type and whether or not the
\* function is called, makes the pass fail with the unsupported-refinement
\* diagnostic and is left as it was before the pass.
C7_Rejection ==
  \A n \in FuncNames :
    (run = 1 /\ HasUnsupportedBound(before[n])) =>
       /\ funcs[n] = before[n]
       /\ pc # "done"
       /\ pc = "failed" => diag = Unimplemented

TableOf(fs) ==
  UNION {{[name |-> n, index |-> i - 1, bound |-> fs[n].args[i].bound] :
            i \in {j \in 1..Len(fs[n].args) : fs[n].args[j].bound # NoTypeBound}} :
         n \in FuncNames}

\* C8: once the first function rewrite can start, the type-bound table holds
\* the annotations of all functions as they were before the run, and it stays
\* so while functions are rewritten and their annotations stripped; a call
\* operand is copied to the callee's original bound whether the callee was
\* rewritten before or after the caller.
C8_TwoPhase ==
  pc \in {"rewrite", "done", "failed"} =>
    /\ typeBoundMap = TableOf(before)
    /\ \A nc \in RewrittenCalls :
         LET old == before[nc[1]].calls[nc[2]]
             new == funcs[nc[1]].calls[nc[2]]
             kept == KeptOperands(old.operands)
         IN \A k \in 1..Len(kept) :
              before[old.callee].args[kept[k]].bound # NoTypeBound =>
                 new.operands[k].type = before[old.callee].args[kept[k]].bound

\* C8 witness: the callee was rewritten and stripped of its annotations
\* before the caller, and the caller's call still copies to the bound.
C8_Witness ==
  /\ pc = "done"
  /\ run = 1
  /\ order = <<"f", "g">>
  /\ Len(funcs["g"].calls) = 1
  /\ Len(before["f"].args) >= 1
  /\ before["f"].args[1].bound = RefinedValueTensorType
  /\ funcs["f"].args[1].bound = NoTypeBound
  /\ funcs["g"].calls[1].operands[1].via = "copyTensorToType"
  /\ typeBoundMap # TableOf(funcs)

\* C9: starting from calls that match their callee's declared signature,
\* after the pass succeeds every call matches its callee's rewritten
\* signature: operand types equal argument types, result types equal.
C9_CallMatchesCallee ==
  (pc = "done" /\ run = 1) =>
    \A n \in FuncNames : \A c \in 1..Len(funcs[n].calls) :
      LET call == funcs[n].calls[c]
          callee == funcs[call.callee]
      IN /\ TypesOf(call.operands) = TypesOf(callee.args)
         /\ call.resultTypes = callee.results

\* C10: starting from returns whose operand types are the declared result
\* types, after the pass succeeds every return's operand types are, in
\* order, the result types of its function.
C10_ReturnMatchesSignature ==
  (pc = "done" /\ run = 1) =>
    \A n \in FuncNames : TypesOf(funcs[n].ret) = funcs[n].results

====
